---- MODULE Spec2Model ----
(***************************************************************************)
(* Model of purview_connector_sdk: the BaseConnector pipeline              *)
(* (extract -> transform -> validate -> bulk-create), qualified-name       *)
(* construction, and the Entity wire-format conversion.                    *)
(*                                                                         *)
(* Python values are modelled as follows.                                  *)
(*   dict            a function whose DOMAIN is the set of keys present    *)
(*   list            a sequence                                            *)
(*   Optional[str]   PyNone or PyStr(s)                                    *)
(*   str             a TLA+ string where it is opaque; a sequence of       *)
(*                   one-character strings where the code looks at         *)
(*                   characters (strip, join, lower)                       *)
(***************************************************************************)
EXTENDS Integers, Sequences, FiniteSets, TLC

VARIABLES
    self,        \* the connector object (fields set by BaseConnector.__init__)
    ctor,        \* the arguments __init__ was called with
    env,         \* the process environment: os.environ and the file system
    pc,          \* position of the current call
    entry,       \* which public method the caller invoked
    metadata,    \* local `metadata` of scan_and_ingest
    entities,    \* local `entities` (scan_and_ingest) / argument (ingest_to_purview)
    vi,          \* loop index of validate_entities (1-based)
    result,      \* local `result`: what bulk_create_entities returned
    ret,         \* value returned to the caller
    exc,         \* exception that reached the caller
    calls,       \* history: the stage invocations of the current call, in order
    stageExc,    \* history: the exception as raised inside the stage
    qnArgs,      \* arguments (*parts) of the last create_qualified_name call
    qn,          \* what that call returned
    ent,         \* an Entity instance
    atlas,       \* ent.to_atlas_dict()
    back         \* Entity.from_atlas_dict(atlas)

pipeVars == <<pc, entry, metadata, entities, vi, result, ret, exc, calls, stageExc>>
qnVars == <<qnArgs, qn>>
entVars == <<ent, atlas, back>>
vars == <<self, ctor, env, pipeVars, qnVars, entVars>>

----------------------------------------------------------------------------
(* Bounds *)

MaxBatch == 2      \* longest entity batch
MaxParts == 4      \* most arguments to create_qualified_name

----------------------------------------------------------------------------
(* Python values *)

PyNone == [t |-> "None"]

\* os.environ with neither variable set; os.getenv(name) is None when unset
EmptyEnviron == [PURVIEW_ACCOUNT_NAME |-> PyNone, AZURE_TENANT_ID |-> PyNone]
PyStr(s) == [t |-> "str", s |-> s]
PyDict(d) == [t |-> "dict", d |-> d]

\* Python truthiness of an Optional[str]: None and "" are falsy.
Truthy(v) == v.t = "str" /\ Len(v.s) > 0

Unset == [unset |-> TRUE]

\* The environment of a run that reads none of it.
NoEnv == [environ |-> EmptyEnviron, fs |-> Unset]
EmptyDict == [k \in {} |-> ""]

\* dict.get(key, default)
Get(d, k, default) == IF k \in DOMAIN d THEN d[k] ELSE default

----------------------------------------------------------------------------
(* Exceptions (exceptions.py): every class and its direct base *)

BaseOf(kind) ==
    CASE kind = "PurviewConnectorError" -> "Exception"
      [] kind = "AuthenticationError"   -> "PurviewConnectorError"
      [] kind = "IngestionError"        -> "PurviewConnectorError"
      [] kind = "ValidationError"       -> "PurviewConnectorError"
      [] kind = "ConnectionError"       -> "PurviewConnectorError"
      [] kind = "ConfigurationError"    -> "PurviewConnectorError"
      [] kind = "TransformationError"   -> "PurviewConnectorError"
      [] kind = "TypeError"             -> "Exception"
      [] OTHER                          -> "BaseException"

\* isinstance(exception of class `kind`, cls)
IsInstance(kind, cls) ==
    \/ kind = cls
    \/ BaseOf(kind) = cls
    \/ BaseOf(BaseOf(kind)) = cls

NoExc == [kind |-> "none", stage |-> "none"]
Exc(kind, stage) == [kind |-> kind, stage |-> stage]

----------------------------------------------------------------------------
(* Strings as character sequences *)

RECURSIVE LStrip(_, _)
\* s.lstrip(c)
LStrip(s, c) == IF s # <<>> /\ Head(s) = c THEN LStrip(Tail(s), c) ELSE s

RECURSIVE RStrip(_, _)
\* s.rstrip(c)
RStrip(s, c) ==
    IF s # <<>> /\ s[Len(s)] = c THEN RStrip(SubSeq(s, 1, Len(s) - 1), c) ELSE s

\* s.strip(c): leading and trailing occurrences of c removed
Strip(s, c) == RStrip(LStrip(s, c), c)

RECURSIVE Join(_, _)
\* sep.join(strs)
Join(sep, strs) ==
    IF strs = <<>> THEN <<>>
    ELSE IF Len(strs) = 1 THEN strs[1]
    ELSE strs[1] \o sep \o Join(sep, Tail(strs))

\* str.lower() on one character (the upper-case letters the class and file
\* names use)
LowerChar(c) ==
    CASE c = "A" -> "a" [] c = "B" -> "b" [] c = "C" -> "c" [] c = "D" -> "d"
      [] c = "F" -> "f" [] c = "I" -> "i" [] c = "P" -> "p" [] c = "S" -> "s"
      [] c = "R" -> "r" [] c = "T" -> "t" [] c = "V" -> "v" [] c = "X" -> "x"
      [] OTHER -> c

\* str.lower()
Lower(s) == [i \in 1..Len(s) |-> LowerChar(s[i])]

\* str(p) for an Optional[str]
Str(v) == IF v.t = "None" THEN <<"N", "o", "n", "e">> ELSE v.s

----------------------------------------------------------------------------
(* The connector classes of the package: cls.__name__ *)

DatabaseConnector ==
    <<"D","a","t","a","b","a","s","e","C","o","n","n","e","c","t","o","r">>
FileSystemConnector ==
    <<"F","i","l","e","S","y","s","t","e","m","C","o","n","n","e","c","t","o","r">>
APIConnector == <<"A","P","I","C","o","n","n","e","c","t","o","r">>

Classes == {DatabaseConnector, FileSystemConnector, APIConnector}

----------------------------------------------------------------------------
(* BaseConnector.__init__ and _generate_prefix *)

\* f"{self.__class__.__name__.lower()}://"
GeneratePrefix(cls) == Lower(cls) \o <<":", "/", "/">>

\* qualified_name_prefix or self._generate_prefix()
InitPrefix(cls, qualified_name_prefix) ==
    IF Truthy(qualified_name_prefix)
        THEN qualified_name_prefix.s
        ELSE GeneratePrefix(cls)

\* The object __init__ leaves behind.
BaseInit(cls, client, collection_name, qualified_name_prefix) ==
    [ class_name            |-> cls,
      purview_client        |-> client,
      collection_name       |-> IF Truthy(collection_name)
                                  THEN collection_name.s ELSE <<"d","e","f","a","u","l","t">>,
      qualified_name_prefix |-> InitPrefix(cls, qualified_name_prefix) ]

----------------------------------------------------------------------------
(* BaseConnector.create_qualified_name *)

RECURSIVE CleanParts_NotNone(_)
\* Faulty variant of CleanParts: the filter is `if p is not None`, so empty strings
\* are kept.
CleanParts_NotNone(parts) ==
    IF parts = <<>> THEN <<>>
    ELSE IF Head(parts).t # "None"
        THEN <<Strip(Str(Head(parts)), "/")>> \o CleanParts_NotNone(Tail(parts))
        ELSE CleanParts_NotNone(Tail(parts))

RECURSIVE CleanParts(_)
\* [str(p).strip("/") for p in parts if p]
CleanParts(parts) ==
    IF parts = <<>> THEN <<>>
    ELSE IF Truthy(Head(parts))
        THEN <<Strip(Str(Head(parts)), "/")>> \o CleanParts(Tail(parts))
        ELSE CleanParts(Tail(parts))

\* f"{self.qualified_name_prefix}{'/'.join(clean_parts)}"
CreateQualifiedName(obj, parts) ==
    obj.qualified_name_prefix \o Join(<<"/">>, CleanParts(parts))

----------------------------------------------------------------------------
(* Entity records as the pipeline sees them: dicts with optional keys *)

\* {"typeName": tn, "attributes": at}, a key left out when its flag is FALSE
MkEntity(hasType, tn, hasAttrs, at) ==
    [k \in (IF hasType THEN {"typeName"} ELSE {}) \cup
           (IF hasAttrs THEN {"attributes"} ELSE {})
       |-> IF k = "typeName" THEN tn ELSE at]

TypeNames == {"", "rdbms_table"}
AttrValues == {PyNone, PyDict(EmptyDict), PyDict([qualifiedName |-> "q"])}

EntityRecords ==
    {MkEntity(ht, tn, ha, at) :
        ht \in BOOLEAN, tn \in TypeNames, ha \in BOOLEAN, at \in AttrValues}

Batches == UNION {[1..n -> EntityRecords] : n \in 0..MaxBatch}

Metadatas == {[source |-> "A"], [source |-> "B"]}

----------------------------------------------------------------------------
(* BaseConnector.validate_entities: the body of the loop, for one entity.  *)
(* "ok" when the entity passes, otherwise the class of the exception.      *)

ValidateEntity(entity) ==
    IF "typeName" \notin DOMAIN entity THEN "PurviewConnectorError"
    ELSE IF "attributes" \notin DOMAIN entity THEN "PurviewConnectorError"
    ELSE LET attrs == Get(entity, "attributes", PyDict(EmptyDict)) IN
         IF attrs.t = "None" THEN "TypeError"    \* `in` applied to None
         ELSE IF "qualifiedName" \notin DOMAIN attrs.d THEN "PurviewConnectorError"
         ELSE "ok"

----------------------------------------------------------------------------
(* PurviewClient.bulk_create_entities *)

BulkCreateEntities(ents) ==
    [entities_created |-> Len(ents), status |-> "success"]

\* The catalog clients a connector may be handed: the package's own
\* PurviewClient, one whose bulk-create raises, and one that reports creating
\* only some of the entities.
Clients == {"PurviewClient", "FailingClient", "PartialClient"}

\* What bulk_create_entities of such a client can return for a batch.
ClientResults(client, ents) ==
    CASE client = "PurviewClient" -> {BulkCreateEntities(ents)}
      [] client = "PartialClient" ->
            {[entities_created |-> n, status |-> "partial"] : n \in 0..Len(ents)}
      [] OTHER -> {}

----------------------------------------------------------------------------
(* The caller invokes a public method *)

Idle == pc = "idle"

\* One stage invocation: what it was given and what it returned (Unset when
\* it takes no argument, raised, or has not returned yet).
Invocation(stage, arg, out) == [stage |-> stage, arg |-> arg, out |-> out]

Enter(method, at, ents) ==
    /\ Idle
    /\ entry' = method
    /\ pc' = at
    /\ entities' = ents
    /\ metadata' = Unset
    /\ vi' = 0
    /\ result' = Unset
    /\ ret' = Unset
    /\ exc' = NoExc
    /\ stageExc' = NoExc
    /\ calls' = <<>>
    /\ UNCHANGED <<self, ctor, env, qnVars, entVars>>

CallScanAndIngest == Enter("scan_and_ingest", "extract", <<>>)

CallIngestToPurview == \E ents \in Batches : Enter("ingest_to_purview", "ingest", ents)

\* Faulty variant of Raise: scan_and_ingest catches the failure and re-raises it as
\* the package's base error.
Raise_Wrapped(kind, stage) ==
    /\ stageExc' = Exc(kind, stage)
    /\ exc' = Exc("PurviewConnectorError", "scan_and_ingest")
    /\ pc' = "raised"

\* An exception raised in `stage` leaves every frame: nothing catches it.
Raise(kind, stage) ==
    /\ stageExc' = Exc(kind, stage)
    /\ exc' = Exc(kind, stage)
    /\ pc' = "raised"

----------------------------------------------------------------------------
(* scan_and_ingest *)

\* metadata = self.extract_metadata()
ExtractReturns ==
    /\ pc = "extract"
    /\ \E m \in Metadatas :
         /\ metadata' = m
         /\ calls' = Append(calls, Invocation("extract_metadata", Unset, m))
    /\ pc' = "transform"
    /\ UNCHANGED <<self, ctor, env, entry, entities, vi, result, ret, exc, stageExc, qnVars, entVars>>

ExtractRaises ==
    /\ pc = "extract"
    /\ calls' = Append(calls, Invocation("extract_metadata", Unset, Unset))
    /\ Raise("ConnectionError", "extract_metadata")
    /\ UNCHANGED <<self, ctor, env, entry, metadata, entities, vi, result, ret, qnVars, entVars>>

\* entities = self.transform_to_atlas(metadata)
TransformReturns ==
    /\ pc = "transform"
    /\ \E ents \in Batches :
         /\ entities' = ents
         /\ calls' = Append(calls, Invocation("transform_to_atlas", metadata, [ents |-> ents]))
    /\ pc' = "ingest"
    /\ UNCHANGED <<self, ctor, env, entry, metadata, vi, result, ret, exc, stageExc, qnVars, entVars>>

TransformRaises ==
    /\ pc = "transform"
    /\ calls' = Append(calls, Invocation("transform_to_atlas", metadata, Unset))
    /\ Raise("TransformationError", "transform_to_atlas")
    /\ UNCHANGED <<self, ctor, env, entry, metadata, entities, vi, result, ret, qnVars, entVars>>

----------------------------------------------------------------------------
(* ingest_to_purview *)

\* Faulty variant of ValidateBegin: ingest_to_purview goes to bulk-create without
\* calling validate_entities.
ValidateBegin_Skipped ==
    /\ pc = "ingest"
    /\ pc' = "bulk"
    /\ UNCHANGED <<self, ctor, env, entry, metadata, entities, vi, result, ret, exc, calls, stageExc, qnVars, entVars>>

\* self.validate_entities(entities): the call, before the first iteration
ValidateBegin ==
    /\ pc = "ingest"
    /\ calls' = Append(calls, Invocation("validate_entities", [ents |-> entities], Unset))
    /\ vi' = 1
    /\ pc' = "validate"
    /\ UNCHANGED <<self, ctor, env, entry, metadata, entities, result, ret, exc, stageExc, qnVars, entVars>>

\* one iteration of `for entity in entities` that passes
ValidateNext ==
    /\ pc = "validate"
    /\ vi <= Len(entities)
    /\ ValidateEntity(entities[vi]) = "ok"
    /\ vi' = vi + 1
    /\ UNCHANGED <<self, ctor, env, pc, entry, metadata, entities, result, ret, exc, calls, stageExc, qnVars, entVars>>

\* one iteration that raises
ValidateRaises ==
    /\ pc = "validate"
    /\ vi <= Len(entities)
    /\ ValidateEntity(entities[vi]) # "ok"
    /\ Raise(ValidateEntity(entities[vi]), "validate_entities")
    /\ UNCHANGED <<self, ctor, env, entry, metadata, entities, vi, result, ret, calls, qnVars, entVars>>

\* Faulty variant of ValidateReturns: `return True` sits inside the loop, so only the
\* first entity is looked at.
ValidateReturns_AfterFirst ==
    /\ pc = "validate"
    /\ vi > 1 \/ vi > Len(entities)
    /\ pc' = "bulk"
    /\ UNCHANGED <<self, ctor, env, entry, metadata, entities, vi, result, ret, exc, calls, stageExc, qnVars, entVars>>

\* the loop is exhausted: return True
ValidateReturns ==
    /\ pc = "validate"
    /\ vi > Len(entities)
    /\ pc' = "bulk"
    /\ UNCHANGED <<self, ctor, env, entry, metadata, entities, vi, result, ret, exc, calls, stageExc, qnVars, entVars>>

\* result = self.purview_client.bulk_create_entities(entities)
BulkReturns ==
    /\ pc = "bulk"
    /\ \E res \in ClientResults(self.purview_client, entities) :
         /\ result' = res
         /\ calls' = Append(calls, Invocation("bulk_create_entities", [ents |-> entities], res))
    /\ pc' = "ingested"
    /\ UNCHANGED <<self, ctor, env, entry, metadata, entities, vi, ret, exc, stageExc, qnVars, entVars>>

BulkRaises ==
    /\ pc = "bulk"
    /\ self.purview_client = "FailingClient"
    /\ calls' = Append(calls, Invocation("bulk_create_entities", [ents |-> entities], Unset))
    /\ Raise("IngestionError", "bulk_create_entities")
    /\ UNCHANGED <<self, ctor, env, entry, metadata, entities, vi, result, ret, qnVars, entVars>>

\* Faulty variant of Summary: entities_created is taken from the batch length.
Summary_CreatedIsLen(meta, ents, res) ==
    [ status             |-> "success",
      entities_extracted |-> Len(ents),
      entities_created   |-> Len(ents),
      metadata           |-> meta ]

\* The dict scan_and_ingest returns.
Summary(meta, ents, res) ==
    [ status             |-> "success",
      entities_extracted |-> Len(ents),
      entities_created   |-> Get(res, "entities_created", 0),
      metadata           |-> meta ]

\* Faulty variant of IngestReturnValue: the result is rebuilt with a fixed status.
IngestReturnValue_Rebuilt(res) ==
    [entities_created |-> Get(res, "entities_created", 0), status |-> "success"]

\* ingest_to_purview: `return result`
IngestReturnValue(res) == res

\* `return result` of ingest_to_purview and, under scan_and_ingest, the
\* summary built from it
Return ==
    /\ pc = "ingested"
    /\ ret' = IF entry = "scan_and_ingest"
                THEN Summary(metadata, entities, IngestReturnValue(result))
                ELSE IngestReturnValue(result)
    /\ pc' = "returned"
    /\ UNCHANGED <<self, ctor, env, entry, metadata, entities, vi, result, exc, calls, stageExc, qnVars, entVars>>

----------------------------------------------------------------------------
(* The pipeline specification: a connector with abstract extract/transform *)

NoParts == <<>>
NoEntity == Unset

\* No call is in progress and no outcome is pending.
PipelineIdle ==
    /\ pc = "idle"
    /\ entry = "none"
    /\ metadata = Unset
    /\ entities = <<>>
    /\ vi = 0
    /\ result = Unset
    /\ ret = Unset
    /\ exc = NoExc
    /\ stageExc = NoExc
    /\ calls = <<>>

\* The caller has taken the return value or the exception; the connector is
\* ready for the next call.
CallerContinues ==
    /\ pc \in {"returned", "raised"}
    /\ pc' = "idle"
    /\ entry' = "none"
    /\ metadata' = Unset
    /\ entities' = <<>>
    /\ vi' = 0
    /\ result' = Unset
    /\ ret' = Unset
    /\ exc' = NoExc
    /\ stageExc' = NoExc
    /\ calls' = <<>>
    /\ UNCHANGED <<self, ctor, env, qnVars, entVars>>

InitPipeline ==
    /\ \E client \in Clients :
         /\ self = BaseInit(APIConnector, client, PyNone, PyNone)
         /\ ctor = [cls |-> APIConnector, qualified_name_prefix |-> PyNone]
         /\ env = NoEnv
    /\ PipelineIdle
    /\ qnArgs = NoParts
    /\ qn = <<>>
    /\ ent = NoEntity
    /\ atlas = Unset
    /\ back = NoEntity

Next ==
    \/ CallScanAndIngest
    \/ CallIngestToPurview
    \/ ExtractReturns
    \/ ExtractRaises
    \/ TransformReturns
    \/ TransformRaises
    \/ ValidateBegin
    \/ ValidateNext
    \/ ValidateRaises
    \/ ValidateReturns
    \/ BulkReturns
    \/ BulkRaises
    \/ Return
    \/ CallerContinues

Spec == InitPipeline /\ [][Next]_vars

----------------------------------------------------------------------------
(* Construction and create_qualified_name *)

\* qualified_name_prefix arguments: not given, "", "s3://"
PrefixArgs == {PyNone, PyStr(<<>>), PyStr(<<"s", "3", ":", "/", "/">>)}

\* parts: None, "", "a", "b", "/", "/a/", "a/b"
PartValues ==
    {PyNone, PyStr(<<>>), PyStr(<<"a">>), PyStr(<<"b">>), PyStr(<<"/">>),
     PyStr(<<"/", "a", "/">>), PyStr(<<"a", "/", "b">>)}

PartLists == UNION {[1..n -> PartValues] : n \in 0..MaxParts}

InitQName ==
    /\ \E cls \in Classes, prefix \in PrefixArgs :
         /\ self = BaseInit(cls, "PurviewClient", PyNone, prefix)
         /\ ctor = [cls |-> cls, qualified_name_prefix |-> prefix]
         /\ env = NoEnv
    /\ PipelineIdle
    /\ qnArgs \in PartLists
    /\ qn = <<>>
    /\ ent = NoEntity
    /\ atlas = Unset
    /\ back = NoEntity

\* qn = connector.create_qualified_name(*qnArgs)
CallCreateQualifiedName ==
    /\ pc = "idle"
    /\ qn' = CreateQualifiedName(self, qnArgs)
    /\ entry' = "create_qualified_name"
    /\ pc' = "returned"
    /\ UNCHANGED <<self, ctor, env, metadata, entities, vi, result, ret, exc, calls, stageExc, qnArgs, entVars>>

NextQName == CallCreateQualifiedName

SpecQName == InitQName /\ [][NextQName]_vars

----------------------------------------------------------------------------
(* Entity (models/entity.py) *)

\* EntityStatus(value): the member with that value
EntityStatusOf(value) ==
    CASE value = "ACTIVE"  -> "EntityStatus.ACTIVE"
      [] value = "DELETED" -> "EntityStatus.DELETED"

\* status.value
StatusValue(status) ==
    CASE status = "EntityStatus.ACTIVE"  -> "ACTIVE"
      [] status = "EntityStatus.DELETED" -> "DELETED"

\* {**a, **b}: the keys of b win
Merge(a, b) ==
    [k \in DOMAIN a \cup DOMAIN b |-> IF k \in DOMAIN b THEN b[k] ELSE a[k]]

\* Entity(type_name, qualified_name, name, attributes, guid, status); the
\* other dataclass fields keep their default None.
Entity(type_name, qualified_name, name, attributes, guid, status) ==
    [ type_name      |-> type_name,
      qualified_name |-> qualified_name,
      name           |-> name,
      attributes     |-> attributes,
      guid           |-> guid,
      status         |-> status,
      created_by     |-> PyNone,
      updated_by     |-> PyNone,
      create_time    |-> PyNone,
      update_time    |-> PyNone ]

\* Entity.to_atlas_dict
ToAtlasDict(e) ==
    LET atlas_entity ==
            [ typeName   |-> e.type_name,
              attributes |-> Merge([qualifiedName |-> e.qualified_name, name |-> e.name],
                                   e.attributes),
              status     |-> StatusValue(e.status) ]
    IN  IF Truthy(e.guid)
            THEN [k \in DOMAIN atlas_entity \cup {"guid"} |->
                    IF k = "guid" THEN e.guid.s ELSE atlas_entity[k]]
            ELSE atlas_entity

\* Entity.from_atlas_dict
FromAtlasDict(data) ==
    LET attributes == Get(data, "attributes", EmptyDict) IN
    Entity(Get(data, "typeName", ""),
           Get(attributes, "qualifiedName", ""),
           Get(attributes, "name", ""),
           [k \in DOMAIN attributes \ {"qualifiedName", "name"} |-> attributes[k]],
           IF "guid" \in DOMAIN data THEN PyStr(data["guid"]) ELSE PyNone,
           EntityStatusOf(Get(data, "status", "ACTIVE")))

AttrKeys == {"qualifiedName", "name", "owner"}
AttrStrings == {"q1", "x"}
AttrDicts == UNION {[ks -> AttrStrings] : ks \in SUBSET AttrKeys}

EntityInputs ==
    {Entity(tn, "q1", "n1", attrs, guid, st) :
        tn \in {"", "rdbms_table"}, attrs \in AttrDicts,
        guid \in {PyNone, PyStr(""), PyStr("g1")},
        st \in {"EntityStatus.ACTIVE", "EntityStatus.DELETED"}}

InitEntity ==
    /\ self = BaseInit(APIConnector, "PurviewClient", PyNone, PyNone)
    /\ ctor = [cls |-> APIConnector, qualified_name_prefix |-> PyNone]
    /\ env = NoEnv
    /\ pc = "built"
    /\ entry = "Entity"
    /\ metadata = Unset
    /\ entities = <<>>
    /\ vi = 0
    /\ result = Unset
    /\ ret = Unset
    /\ exc = NoExc
    /\ stageExc = NoExc
    /\ calls = <<>>
    /\ qnArgs = NoParts
    /\ qn = <<>>
    /\ ent \in EntityInputs
    /\ atlas = Unset
    /\ back = NoEntity

\* atlas = ent.to_atlas_dict()
CallToAtlasDict ==
    /\ pc = "built"
    /\ entry = "Entity"
    /\ atlas' = ToAtlasDict(ent)
    /\ pc' = "serialized"
    /\ UNCHANGED <<self, ctor, env, entry, metadata, entities, vi, result, ret, exc, calls, stageExc, qnVars, ent, back>>

\* back = Entity.from_atlas_dict(atlas)
CallFromAtlasDict ==
    /\ pc = "serialized"
    /\ back' = FromAtlasDict(atlas)
    /\ pc' = "deserialized"
    /\ UNCHANGED <<self, ctor, env, entry, metadata, entities, vi, result, ret, exc, calls, stageExc, qnVars, ent, atlas>>

NextEntity == CallToAtlasDict \/ CallFromAtlasDict

SpecEntity == InitEntity /\ [][NextEntity]_vars

----------------------------------------------------------------------------
(* Vocabulary of the pipeline properties *)

Stages ==
    <<"extract_metadata", "transform_to_atlas", "validate_entities", "bulk_create_entities">>

StageNames(cs) == [i \in 1..Len(cs) |-> cs[i].stage]

\* how many times `stage` was invoked in the current call
Count(stage) == Cardinality({i \in 1..Len(calls) : calls[i].stage = stage})

IsPrefix(a, b) == Len(a) <= Len(b) /\ \A i \in 1..Len(a) : a[i] = b[i]

\* the entity lacks typeName, lacks attributes (absent or null), or lacks
\* qualifiedName inside attributes
Lacks(e) ==
    \/ "typeName" \notin DOMAIN e
    \/ "attributes" \notin DOMAIN e
    \/ e["attributes"].t = "None"
    \/ "qualifiedName" \notin DOMAIN e["attributes"].d

HasLacking(ents) == \E i \in 1..Len(ents) : Lacks(ents[i])

----------------------------------------------------------------------------
\* C1: a batch in which some entity (at any position) lacks typeName,
\* attributes or attributes.qualifiedName never reaches bulk_create_entities:
\* the call can only end by raising out of validate_entities, with zero
\* bulk-create invocations.
C1_NoBulkCreateForInvalidBatch ==
    (entry # "none" /\ HasLacking(entities)) =>
        /\ Count("bulk_create_entities") = 0
        /\ pc \in {"ingest", "validate", "raised"}
        /\ (pc = "validate" => vi <= Len(entities))
        /\ (pc = "raised" => exc.stage = "validate_entities")

\* C1 witness: scan_and_ingest raised on a batch whose first entity is
\* complete and whose last entity is not; nothing was ingested.
C1_Witness ==
    /\ entry = "scan_and_ingest"
    /\ pc = "raised"
    /\ Len(entities) = 2
    /\ ~Lacks(entities[1])
    /\ Lacks(entities[2])
    /\ Count("bulk_create_entities") = 0

\* C2: under scan_and_ingest the stages are invoked in the order extract,
\* transform, validate, bulk-create, none twice; a successful call has invoked
\* all four; transform is given what extract returned; bulk-create is invoked
\* only after the validation loop has gone through the whole batch.
C2_StagesInOrder ==
    entry = "scan_and_ingest" =>
        /\ IsPrefix(StageNames(calls), Stages)
        /\ (pc = "returned" => StageNames(calls) = Stages)
        /\ (Len(calls) >= 2 => calls[2].arg = calls[1].out)
        /\ (Count("bulk_create_entities") > 0 =>
               /\ vi = Len(entities) + 1
               /\ calls[3].arg = calls[2].out)

\* C2 witness: a successful scan_and_ingest over a two-entity batch.
C2_Witness ==
    /\ entry = "scan_and_ingest"
    /\ pc = "returned"
    /\ Len(entities) = 2

\* C3: when a stage fails, the caller gets exactly the exception the stage
\* raised, the failed stage is the last one invoked, no stage was invoked
\* twice, and nothing is returned.
C3_FailurePropagates ==
    /\ \A i \in 1..Len(Stages) : Count(Stages[i]) <= 1
    /\ pc = "raised" =>
        /\ exc.kind # "none"
        /\ exc = stageExc
        /\ calls # <<>>
        /\ calls[Len(calls)].stage = exc.stage
        /\ ret = Unset

\* C3 witness: scan_and_ingest failed in its last stage, bulk-create.
C3_Witness ==
    /\ entry = "scan_and_ingest"
    /\ pc = "raised"
    /\ exc.stage = "bulk_create_entities"
    /\ Len(entities) > 0

\* C4: the summary of a successful scan_and_ingest has status "success",
\* entities_extracted = the length of what transform returned,
\* entities_created = the count in the bulk-create result, and metadata =
\* what extract returned.
C4_SummaryOfSuccess ==
    (entry = "scan_and_ingest" /\ pc = "returned") =>
        /\ ret.status = "success"
        /\ ret.entities_extracted = Len(calls[2].out.ents)
        /\ ret.entities_created = calls[4].out.entities_created
        /\ ret.metadata = calls[1].out

\* C4 witness: a successful scan where the catalog reports fewer entities
\* created than were extracted.
C4_Witness ==
    /\ entry = "scan_and_ingest"
    /\ pc = "returned"
    /\ ret.entities_created < ret.entities_extracted

\* the record has a non-empty typeName, has attributes, and its attributes
\* contain qualifiedName
WellFormed(e) ==
    /\ "typeName" \in DOMAIN e
    /\ e["typeName"] # ""
    /\ "attributes" \in DOMAIN e
    /\ e["attributes"].t = "dict"
    /\ "qualifiedName" \in DOMAIN e["attributes"].d

\* validate_entities has returned True for the batch / has raised
ValidationPassed == pc \in {"bulk", "ingested", "returned"}
ValidationFailed == pc = "raised" /\ exc.stage = "validate_entities"

\* C5: validation succeeds if and only if every record has a non-empty
\* typeName, has attributes, and has qualifiedName in its attributes; a record
\* with an empty typeName is rejected.
C5_ValidationIffWellFormed ==
    /\ ValidationPassed => \A i \in 1..Len(entities) : WellFormed(entities[i])
    /\ ValidationFailed => \E i \in 1..Len(entities) : ~WellFormed(entities[i])

\* C6: whenever validate_entities rejects a batch, the exception it raises is
\* a ValidationError.
C6_RejectionIsValidationError ==
    ValidationFailed => IsInstance(exc.kind, "ValidationError")

\* C7: when validation passes, ingest_to_purview has invoked bulk-create
\* exactly once, with the entity sequence it was given, and what it returns
\* (to its caller, or to scan_and_ingest as `result`) is what bulk-create
\* returned.
C7_IngestDelegatesVerbatim ==
    pc \in {"ingested", "returned"} =>
        /\ Count("bulk_create_entities") = 1
        /\ calls[Len(calls)].stage = "bulk_create_entities"
        /\ calls[Len(calls)].arg = [ents |-> entities]
        /\ result = calls[Len(calls)].out
        /\ (pc = "returned" /\ entry = "ingest_to_purview" => ret = calls[Len(calls)].out)

\* C7 witness: ingest_to_purview returned for a two-entity batch handed to a
\* catalog that reports a partial result.
C7_Witness ==
    /\ entry = "ingest_to_purview"
    /\ pc = "returned"
    /\ Len(entities) = 2
    /\ ret.status = "partial"

----------------------------------------------------------------------------
(* Vocabulary of the qualified-name properties *)

IsFalsyPart(p) == p = PyNone \/ p = PyStr(<<>>)

\* s without its leading and trailing slashes, by position: the stretch from
\* the first to the last character that is not a slash
Trimmed(s) ==
    LET keep == {i \in 1..Len(s) : s[i] # "/"} IN
    IF keep = {} THEN <<>>
    ELSE LET lo == CHOOSE i \in keep : \A j \in keep : i <= j
             hi == CHOOSE i \in keep : \A j \in keep : j <= i
         IN  SubSeq(s, lo, hi)

RECURSIVE SlashJoined(_)
\* the segments written one after the other with a "/" between neighbours
SlashJoined(segs) ==
    IF Len(segs) = 0 THEN <<>>
    ELSE IF Len(segs) = 1 THEN segs[1]
    ELSE SlashJoined(SubSeq(segs, 1, Len(segs) - 1)) \o <<"/">> \o segs[Len(segs)]

\* the prefix followed by the '/'-join of the trimmed non-falsy parts
ExpectedQualifiedName(prefix, ps) ==
    LET kept == SelectSeq(ps, LAMBDA p : ~IsFalsyPart(p))
    IN  prefix \o SlashJoined([i \in 1..Len(kept) |-> Trimmed(kept[i].s)])

\* ps with x put in front of position i (i = Len(ps) + 1: at the end)
InsertAt(ps, i, x) == SubSeq(ps, 1, i - 1) \o <<x>> \o SubSeq(ps, i, Len(ps))

\* ps without its falsy elements
WithoutFalsy(ps) == SelectSeq(ps, LAMBDA p : ~IsFalsyPart(p))

\* C8: create_qualified_name(*parts) is the prefix followed by the '/'-join
\* of the non-falsy parts with their leading and trailing slashes stripped;
\* putting a None or "" part anywhere in the argument list, or taking every
\* such part out, leaves the result the same.
C8_QualifiedNameSkipsFalsyParts ==
    entry = "create_qualified_name" =>
        /\ qn = ExpectedQualifiedName(self.qualified_name_prefix, qnArgs)
        /\ CreateQualifiedName(self, WithoutFalsy(qnArgs)) = qn
        /\ \A i \in 1..(Len(qnArgs) + 1) : \A x \in {PyNone, PyStr(<<>>)} :
              CreateQualifiedName(self, InsertAt(qnArgs, i, x)) = qn

\* C8 witness: create_qualified_name("a", "", None, "b") was called and
\* returned what ("a", "b") gives: prefix + "a/b".
C8_Witness ==
    /\ entry = "create_qualified_name"
    /\ qnArgs = <<PyStr(<<"a">>), PyStr(<<>>), PyNone, PyStr(<<"b">>)>>
    /\ qn = CreateQualifiedName(self, <<PyStr(<<"a">>), PyStr(<<"b">>)>>)
    /\ qn = self.qualified_name_prefix \o <<"a", "/", "b">>

\* C9: the prefix is the value supplied at construction whenever a string is
\* supplied, the empty string included, and "<class name lowercased>://"
\* only when none is supplied.
C9_PrefixIsSuppliedValue ==
    self.qualified_name_prefix =
        IF ctor.qualified_name_prefix.t = "str"
            THEN ctor.qualified_name_prefix.s
            ELSE Lower(ctor.cls) \o <<":", "/", "/">>

----------------------------------------------------------------------------
(* Vocabulary of the entity properties *)

PromotedKeys == {"qualifiedName", "name"}

Without(d, ks) == [k \in DOMAIN d \ ks |-> d[k]]

\* C10: from_atlas_dict(to_atlas_dict(e)) has e's type_name, qualified_name
\* and name, and e's attributes minus the two promoted keys, for every e,
\* also one whose attributes hold the keys qualifiedName or name.
C10_RoundTrip ==
    pc = "deserialized" =>
        /\ back.type_name = ent.type_name
        /\ back.qualified_name = ent.qualified_name
        /\ back.name = ent.name
        /\ back.attributes = Without(ent.attributes, PromotedKeys)

----------------------------------------------------------------------------
(* PurviewClient.__init__ and _setup_authentication (client.py) *)

\* truthiness of an Optional[object]
TruthyObj(v) == v.t # "None"

\* a or b, for Optional[str]
Or(a, b) == IF Truthy(a) THEN a ELSE b

\* Faulty variant of InitCheckFails: only the account name is looked at.
InitCheckFails_AccountOnly(args, environ) ==
    ~Truthy(Or(args.account_name, environ.PURVIEW_ACCOUNT_NAME))

\* __init__: `if not self.account_name and not endpoint: raise`
InitCheckFails(args, environ) ==
    /\ ~Truthy(Or(args.account_name, environ.PURVIEW_ACCOUNT_NAME))
    /\ ~Truthy(args.endpoint)

\* __init__: self.account_name and self.endpoint
InitEndpoint(args, environ) ==
    LET account_name == Or(args.account_name, environ.PURVIEW_ACCOUNT_NAME) IN
    [ account_name |-> account_name,
      endpoint     |-> IF Truthy(args.endpoint)
                         THEN args.endpoint.s
                         ELSE "https://" \o account_name.s \o ".purview.azure.com" ]

Selected(cls, credential) == [raises |-> FALSE, cls |-> cls, credential |-> credential]
AuthFails == [raises |-> TRUE]

\* The branches of _setup_authentication below the service-principal one.
AmbientCredential(args) ==
    IF args.use_managed_identity
        THEN IF Truthy(args.managed_identity_client_id)
                THEN Selected("ManagedIdentityCredential",
                              [cls |-> "ManagedIdentityCredential",
                               client_id |-> args.managed_identity_client_id.s])
                ELSE Selected("ManagedIdentityCredential",
                              [cls |-> "ManagedIdentityCredential"])
    ELSE IF args.use_cli_credentials
        THEN Selected("AzureCliCredential", [cls |-> "AzureCliCredential"])
    ELSE IF args.interactive
        THEN Selected("InteractiveBrowserCredential", [cls |-> "InteractiveBrowserCredential"])
    ELSE Selected("DefaultAzureCredential", [cls |-> "DefaultAzureCredential"])

\* Faulty variant of SetupAuthentication: the managed-identity test comes
\* after the CLI and interactive ones.
SetupAuthentication_IdentityLate(args, environ) ==
    IF TruthyObj(args.credential) THEN Selected("provided", args.credential)
    ELSE IF Truthy(args.client_id) /\ Truthy(args.client_secret)
        THEN LET tenant == Or(args.tenant_id, environ.AZURE_TENANT_ID) IN
             IF ~Truthy(tenant) THEN AuthFails
             ELSE Selected("ClientSecretCredential",
                           [cls |-> "ClientSecretCredential", tenant_id |-> tenant.s,
                            client_id |-> args.client_id.s,
                            client_secret |-> args.client_secret.s])
    ELSE IF args.use_cli_credentials
        THEN Selected("AzureCliCredential", [cls |-> "AzureCliCredential"])
    ELSE IF args.interactive
        THEN Selected("InteractiveBrowserCredential", [cls |-> "InteractiveBrowserCredential"])
    ELSE AmbientCredential(args)

\* Faulty variant of SetupAuthentication: without a tenant the
\* service-principal branch is skipped instead of raising.
SetupAuthentication_FallsThrough(args, environ) ==
    IF TruthyObj(args.credential) THEN Selected("provided", args.credential)
    ELSE IF /\ Truthy(args.client_id) /\ Truthy(args.client_secret)
            /\ Truthy(Or(args.tenant_id, environ.AZURE_TENANT_ID))
        THEN Selected("ClientSecretCredential",
                      [cls |-> "ClientSecretCredential",
                       tenant_id |-> Or(args.tenant_id, environ.AZURE_TENANT_ID).s,
                       client_id |-> args.client_id.s,
                       client_secret |-> args.client_secret.s])
    ELSE AmbientCredential(args)

\* _setup_authentication: the credential it returns, or AuthFails when it
\* raises AuthenticationError
SetupAuthentication(args, environ) ==
    IF TruthyObj(args.credential) THEN Selected("provided", args.credential)
    ELSE IF Truthy(args.client_id) /\ Truthy(args.client_secret)
        THEN LET tenant == Or(args.tenant_id, environ.AZURE_TENANT_ID) IN
             IF ~Truthy(tenant) THEN AuthFails
             ELSE Selected("ClientSecretCredential",
                           [cls |-> "ClientSecretCredential", tenant_id |-> tenant.s,
                            client_id |-> args.client_id.s,
                            client_secret |-> args.client_secret.s])
    ELSE AmbientCredential(args)

\* Constructor arguments and environments the client is built under.
ClientArgs ==
    [ account_name               : {PyNone, PyStr(""), PyStr("acct")},
      endpoint                   : {PyNone, PyStr(""), PyStr("https://catalog.example")},
      tenant_id                  : {PyNone, PyStr("tenant")},
      client_id                  : {PyNone, PyStr("app")},
      client_secret              : {PyNone, PyStr("secret")},
      credential                 : {PyNone, [t |-> "object", cls |-> "TokenCredential"]},
      use_managed_identity       : BOOLEAN,
      managed_identity_client_id : {PyNone, PyStr("uami")},
      use_cli_credentials        : BOOLEAN,
      interactive                : BOOLEAN ]

Environs ==
    [ PURVIEW_ACCOUNT_NAME : {PyNone, PyStr("envacct")},
      AZURE_TENANT_ID      : {PyNone, PyStr("envtenant")} ]

InitClient ==
    /\ self = Unset
    /\ ctor \in ClientArgs
    /\ \E environ \in Environs : env = [environ |-> environ, fs |-> Unset]
    /\ pc = "init"
    /\ entry = "PurviewClient"
    /\ metadata = Unset
    /\ entities = <<>>
    /\ vi = 0
    /\ result = Unset
    /\ ret = Unset
    /\ exc = NoExc
    /\ stageExc = NoExc
    /\ calls = <<>>
    /\ qnArgs = NoParts
    /\ qn = <<>>
    /\ ent = NoEntity
    /\ atlas = Unset
    /\ back = NoEntity

\* __init__ raises: neither account name nor endpoint
ClientInitRaises ==
    /\ pc = "init"
    /\ entry = "PurviewClient"
    /\ InitCheckFails(ctor, env.environ)
    /\ Raise("AuthenticationError", "__init__")
    /\ UNCHANGED <<self, ctor, env, entry, metadata, entities, vi, result, ret, calls, qnVars, entVars>>

\* __init__ sets account_name and endpoint and goes on to _setup_authentication
ClientInitEndpoint ==
    /\ pc = "init"
    /\ entry = "PurviewClient"
    /\ ~InitCheckFails(ctor, env.environ)
    /\ self' = InitEndpoint(ctor, env.environ)
    /\ pc' = "auth"
    /\ UNCHANGED <<ctor, env, entry, metadata, entities, vi, result, ret, exc, calls, stageExc, qnVars, entVars>>

\* self.credential = self._setup_authentication(...)
ClientAuthReturns ==
    /\ pc = "auth"
    /\ LET r == SetupAuthentication(ctor, env.environ) IN
         /\ ~r.raises
         /\ self' = [k \in DOMAIN self \cup {"credential"} |->
                        IF k = "credential" THEN r.credential ELSE self[k]]
         /\ calls' = Append(calls, Invocation("_setup_authentication", Unset, [cls |-> r.cls]))
    /\ pc' = "returned"
    /\ UNCHANGED <<ctor, env, entry, metadata, entities, vi, result, ret, exc, stageExc, qnVars, entVars>>

\* _setup_authentication raises: service principal without a tenant
ClientAuthRaises ==
    /\ pc = "auth"
    /\ SetupAuthentication(ctor, env.environ).raises
    /\ Raise("AuthenticationError", "_setup_authentication")
    /\ UNCHANGED <<self, ctor, env, entry, metadata, entities, vi, result, ret, calls, qnVars, entVars>>

NextClient ==
    \/ ClientInitRaises
    \/ ClientInitEndpoint
    \/ ClientAuthReturns
    \/ ClientAuthRaises

SpecClient == InitClient /\ [][NextClient]_vars

----------------------------------------------------------------------------
(* Properties of client construction *)

Constructed == entry = "PurviewClient" /\ pc = "returned"

\* the strategies whose inputs are present in the constructor call
HasCredential == ctor.credential # PyNone
HasServicePrincipal == Truthy(ctor.client_id) /\ Truthy(ctor.client_secret)
Chosen == calls[1].out.cls

\* the highest-priority strategy of a priority list whose inputs are present
RECURSIVE FirstPresent(_)
FirstPresent(priority) ==
    IF priority = <<>> THEN "DefaultAzureCredential"
    ELSE IF Head(priority)[2] THEN Head(priority)[1]
    ELSE FirstPresent(Tail(priority))

\* C11 as stated: a constructed client uses exactly one strategy, the first
\* with its inputs present in the order explicit credential, service
\* principal, managed identity, interactive, CLI, default chain.
C11_InteractiveBeforeCli ==
    Constructed =>
        /\ Len(calls) = 1
        /\ Chosen = FirstPresent(<< <<"provided", HasCredential>>,
                                    <<"ClientSecretCredential", HasServicePrincipal>>,
                                    <<"ManagedIdentityCredential", ctor.use_managed_identity>>,
                                    <<"InteractiveBrowserCredential", ctor.interactive>>,
                                    <<"AzureCliCredential", ctor.use_cli_credentials>> >>)

\* C11 amended: the same with the CLI credential ranked above the
\* interactive one; the credential held by the client is of the chosen kind.
C11_CliBeforeInteractive ==
    Constructed =>
        /\ Len(calls) = 1
        /\ Chosen = FirstPresent(<< <<"provided", HasCredential>>,
                                    <<"ClientSecretCredential", HasServicePrincipal>>,
                                    <<"ManagedIdentityCredential", ctor.use_managed_identity>>,
                                    <<"AzureCliCredential", ctor.use_cli_credentials>>,
                                    <<"InteractiveBrowserCredential", ctor.interactive>> >>)
        /\ IF Chosen = "provided" THEN self.credential = ctor.credential
                                  ELSE self.credential.cls = Chosen

\* both flags set and nothing of higher priority: the CLI credential is used
C11_Witness ==
    /\ Constructed
    /\ ~HasCredential /\ ~HasServicePrincipal /\ ~ctor.use_managed_identity
    /\ ctor.use_cli_credentials /\ ctor.interactive
    /\ self.credential = [cls |-> "AzureCliCredential"]

AccountSupplied == Truthy(ctor.account_name) \/ Truthy(env.environ.PURVIEW_ACCOUNT_NAME)
EndpointSupplied == Truthy(ctor.endpoint)
SuppliedAccount ==
    IF Truthy(ctor.account_name) THEN ctor.account_name.s ELSE env.environ.PURVIEW_ACCOUNT_NAME.s

\* C12: with neither an account name (argument or PURVIEW_ACCOUNT_NAME) nor
\* an endpoint, construction raises AuthenticationError before any
\* credential strategy is selected; otherwise construction goes on and the
\* endpoint is the explicit one if given, else the URL built from the
\* account name.
C12_AccountOrEndpointRequired ==
    (entry = "PurviewClient" /\ pc # "init") =>
        IF ~AccountSupplied /\ ~EndpointSupplied
            THEN /\ pc = "raised"
                 /\ exc = Exc("AuthenticationError", "__init__")
                 /\ calls = <<>>
                 /\ self = Unset
            ELSE /\ exc.stage # "__init__"
                 /\ self.endpoint = IF EndpointSupplied
                                      THEN ctor.endpoint.s
                                      ELSE "https://" \o SuppliedAccount \o ".purview.azure.com"

\* construction refused although a credential was handed in
C12_Witness ==
    /\ entry = "PurviewClient"
    /\ pc = "raised"
    /\ exc = Exc("AuthenticationError", "__init__")
    /\ HasCredential
    /\ ctor.account_name = PyStr("")
    /\ ctor.endpoint = PyNone

ServicePrincipalMode == ~HasCredential /\ HasServicePrincipal
ConstructionOver == entry = "PurviewClient" /\ pc \in {"returned", "raised"} /\ exc.stage # "__init__"
FailedWithoutFallback ==
    /\ pc = "raised"
    /\ exc = Exc("AuthenticationError", "_setup_authentication")
    /\ calls = <<>>
    /\ "credential" \notin DOMAIN self

\* C13 as stated: service-principal mode with no tenant_id argument fails
\* with AuthenticationError and falls back to no other strategy.
C13_NoTenantArgumentFails ==
    (ConstructionOver /\ ServicePrincipalMode /\ ~Truthy(ctor.tenant_id))
        => FailedWithoutFallback

\* C13 amended: service-principal mode with no tenant id, neither as the
\* tenant_id argument nor in AZURE_TENANT_ID, fails with AuthenticationError
\* and falls back to no other strategy.
C13_NoTenantAnywhereFails ==
    (/\ ConstructionOver /\ ServicePrincipalMode
     /\ ~Truthy(ctor.tenant_id) /\ ~Truthy(env.environ.AZURE_TENANT_ID))
        => FailedWithoutFallback

\* the failure happens although lower-priority strategies were asked for
C13_Witness ==
    /\ ConstructionOver /\ ServicePrincipalMode
    /\ ~Truthy(ctor.tenant_id) /\ ~Truthy(env.environ.AZURE_TENANT_ID)
    /\ ctor.use_managed_identity /\ ctor.use_cli_credentials
    /\ FailedWithoutFallback

----------------------------------------------------------------------------
(* DatabaseConnector (connectors/database.py) *)

\* Faulty variant of NewList: the list outlives the call (a shared default),
\* so it still holds what the previous transform put in it.
NewList_Kept ==
    IF calls # <<>> /\ calls[Len(calls)].stage = "transform_to_atlas"
        THEN calls[Len(calls)].out.ents
        ELSE <<>>

\* `entities = []` at the top of every transform_to_atlas
NewList == <<>>

\* Faulty variant of AtlasEntity: the attributes are written at the top level
\* of the entity, beside typeName.
AtlasEntity_Flat(typeName, attributes) ==
    [k \in DOMAIN attributes \cup {"typeName"} |->
        IF k = "typeName" THEN typeName ELSE attributes[k]]

\* {"typeName": ..., "attributes": {...}}
AtlasEntity(typeName, attributes) ==
    [typeName |-> typeName, attributes |-> PyDict(attributes)]

\* DatabaseConnector.__init__
DatabaseInit(client, source_type, qualified_name_prefix) ==
    LET base == BaseInit(DatabaseConnector, client, PyNone, qualified_name_prefix) IN
    [ class_name            |-> base.class_name,
      purview_client        |-> base.purview_client,
      collection_name       |-> base.collection_name,
      qualified_name_prefix |-> base.qualified_name_prefix,
      source_type           |-> source_type ]

\* DatabaseConnector.extract_metadata: the placeholder result
DatabaseExtractMetadata(obj) ==
    [ database_name |-> <<"s","a","m","p","l","e","_","d","a","t","a","b","a","s","e">>,
      schemas |-> <<
        [ name |-> <<"d","b","o">>,
          tables |-> <<
            [ name |-> <<"c","u","s","t","o","m","e","r","s">>,
              columns |-> <<
                [name |-> <<"i","d">>,    type |-> "int",     nullable |-> FALSE],
                [name |-> <<"n","a","m","e">>,  type |-> "varchar", nullable |-> FALSE],
                [name |-> <<"e","m","a","i","l">>, type |-> "varchar", nullable |-> TRUE] >> ] >> ] >> ]

\* Faulty variant of ColumnEntity: the table is left out of the column's
\* qualified name.
ColumnEntity_NoTable(obj, db_name, schema_name, table_name, column) ==
    AtlasEntity("rdbms_column",
        [ qualifiedName |-> CreateQualifiedName(obj,
              <<PyStr(db_name), PyStr(schema_name), PyStr(column.name)>>),
          name       |-> column.name,
          data_type  |-> column.type,
          isNullable |-> Get(column, "nullable", TRUE) ])

\* the column entity of transform_to_atlas
ColumnEntity(obj, db_name, schema_name, table_name, column) ==
    AtlasEntity("rdbms_column",
        [ qualifiedName |-> CreateQualifiedName(obj,
              <<PyStr(db_name), PyStr(schema_name), PyStr(table_name), PyStr(column.name)>>),
          name       |-> column.name,
          data_type  |-> column.type,
          isNullable |-> Get(column, "nullable", TRUE) ])

\* Faulty variant of TableEntity: the schema is left out of the table's
\* qualified name.
TableEntity_NoSchema(obj, db_name, schema_name, table) ==
    AtlasEntity("rdbms_table",
        [ qualifiedName |-> CreateQualifiedName(obj, <<PyStr(db_name), PyStr(table.name)>>),
          name        |-> table.name,
          description |-> <<"T","a","b","l","e"," ","i","n"," ">> \o schema_name \o <<" ","s","c","h","e","m","a">> ])

\* the table entity of transform_to_atlas
TableEntity(obj, db_name, schema_name, table) ==
    AtlasEntity("rdbms_table",
        [ qualifiedName |-> CreateQualifiedName(obj,
              <<PyStr(db_name), PyStr(schema_name), PyStr(table.name)>>),
          name        |-> table.name,
          description |-> <<"T","a","b","l","e"," ","i","n"," ">> \o schema_name \o <<" ","s","c","h","e","m","a">> ])

RECURSIVE ColumnEntities(_, _, _, _, _)
\* for column in table.get("columns", [])
ColumnEntities(obj, db_name, schema_name, table_name, columns) ==
    IF columns = <<>> THEN <<>>
    ELSE <<ColumnEntity(obj, db_name, schema_name, table_name, Head(columns))>>
         \o ColumnEntities(obj, db_name, schema_name, table_name, Tail(columns))

RECURSIVE TableEntities_ColumnsLast(_, _, _, _)
\* Faulty variant of TableEntities: the columns of a schema's tables are
\* appended after all of its table entities.
TableEntities_ColumnsLast(obj, db_name, schema_name, tables) ==
    IF tables = <<>> THEN <<>>
    ELSE <<TableEntity(obj, db_name, schema_name, Head(tables))>>
         \o TableEntities_ColumnsLast(obj, db_name, schema_name, Tail(tables))
         \o ColumnEntities(obj, db_name, schema_name, Head(tables).name,
                           Get(Head(tables), "columns", <<>>))

RECURSIVE TableEntities(_, _, _, _)
\* for table in schema.get("tables", [])
TableEntities(obj, db_name, schema_name, tables) ==
    IF tables = <<>> THEN <<>>
    ELSE <<TableEntity(obj, db_name, schema_name, Head(tables))>>
         \o ColumnEntities(obj, db_name, schema_name, Head(tables).name,
                           Get(Head(tables), "columns", <<>>))
         \o TableEntities(obj, db_name, schema_name, Tail(tables))

RECURSIVE SchemaEntities(_, _, _)
\* for schema in metadata.get("schemas", [])
SchemaEntities(obj, db_name, schemas) ==
    IF schemas = <<>> THEN <<>>
    ELSE TableEntities(obj, db_name, Head(schemas).name, Get(Head(schemas), "tables", <<>>))
         \o SchemaEntities(obj, db_name, Tail(schemas))

\* DatabaseConnector.transform_to_atlas
DatabaseTransformToAtlas(obj, m) ==
    LET db_name == Get(m, "database_name", <<"u","n","k","n","o","w","n">>) IN
    NewList
    \o << AtlasEntity("rdbms_db",
            [ qualifiedName |-> CreateQualifiedName(obj, <<PyStr(db_name)>>),
              name          |-> db_name,
              description   |-> obj.source_type \o <<" ","d","a","t","a","b","a","s","e">> ]) >>
    \o SchemaEntities(obj, db_name, Get(m, "schemas", <<>>))

----------------------------------------------------------------------------
(* FileSystemConnector (connectors/filesystem.py) *)

\* a list argument (Optional[List[str]])
PyList(l) == [t |-> "list", l |-> l]

\* truthiness of an Optional[List]
TruthyList(v) == v.t = "list" /\ v.l # <<>>

\* x in list
InList(x, v) == \E i \in 1..Len(v.l) : v.l[i] = x

\* the index of the last c in s, 0 when there is none (str.rfind, 1-based)
RFind(s, c) ==
    IF \E i \in 1..Len(s) : s[i] = c
        THEN CHOOSE i \in 1..Len(s) : s[i] = c /\ \A j \in (i + 1)..Len(s) : s[j] # c
        ELSE 0

\* PurePath.suffix of a file name: from the last dot on, "" when there is
\* no dot, or the only one leads or ends the name
Suffix(name) ==
    LET i == RFind(name, ".") IN
    IF 1 < i /\ i < Len(name) THEN SubSeq(name, i, Len(name)) ELSE <<>>

\* os.path.basename: what follows the last slash
Basename(path) == SubSeq(path, RFind(path, "/") + 1, Len(path))

\* FileSystemConnector.__init__
FileSystemInit(client, root_path, file_extensions, recursive, qualified_name_prefix) ==
    LET base == BaseInit(FileSystemConnector, client, PyNone, qualified_name_prefix) IN
    [ class_name            |-> base.class_name,
      purview_client        |-> base.purview_client,
      collection_name       |-> base.collection_name,
      qualified_name_prefix |-> base.qualified_name_prefix,
      root_path             |-> root_path,
      file_extensions       |-> file_extensions,
      recursive             |-> recursive ]

\* an entry below the root: its path relative to the root as directory
\* names and a last name, what it is, and what stat() says of it
Item(dirs, name, kind, size, mtime) ==
    [dirs |-> dirs, name |-> name, kind |-> kind, size |-> size, mtime |-> mtime]

\* str(item)
ItemPath(obj, item) == Join(<<"/">>, <<obj.root_path>> \o item.dirs \o <<item.name>>)

\* self.root_path.glob(pattern): "*" yields the entries of the root,
\* "**/*" those of every directory below it as well, in listing order
Glob(obj, fs) ==
    IF obj.recursive THEN fs.listing
    ELSE SelectSeq(fs.listing, LAMBDA item : item.dirs = <<>>)

\* the extension test at the top of the loop body: TRUE when the item is
\* passed over (`continue`)
Skipped(obj, item) ==
    /\ TruthyList(obj.file_extensions)
    /\ item.kind = "file"
    /\ ~InList(Lower(Suffix(item.name)), obj.file_extensions)

FileRecord(obj, item) ==
    [ name      |-> item.name,
      path      |-> ItemPath(obj, item),
      size      |-> item.size,
      extension |-> Suffix(item.name),
      modified  |-> item.mtime ]

DirectoryRecord(obj, item) ==
    [name |-> item.name, path |-> ItemPath(obj, item)]

RECURSIVE ScanFiles(_, _)
\* the files list the loop builds from the items globbed
ScanFiles(obj, items) ==
    IF items = <<>> THEN <<>>
    ELSE (IF ~Skipped(obj, Head(items)) /\ Head(items).kind = "file"
            THEN <<FileRecord(obj, Head(items))>> ELSE <<>>)
         \o ScanFiles(obj, Tail(items))

RECURSIVE ScanDirectories(_, _)
\* the directories list the loop builds from the items globbed
ScanDirectories(obj, items) ==
    IF items = <<>> THEN <<>>
    ELSE (IF ~Skipped(obj, Head(items)) /\ Head(items).kind = "dir"
            THEN <<DirectoryRecord(obj, Head(items))>> ELSE <<>>)
         \o ScanDirectories(obj, Tail(items))

\* an exception leaving a method instead of a return value
Raised(kind) == [raised |-> kind]

\* Faulty variant of FileSystemExtractMetadata: the root is listed without
\* the exists() test, which fails on a missing directory.
FileSystemExtractMetadata_NoExistsTest(obj, fs) ==
    IF ~fs.exists THEN Raised("FileNotFoundError")
    ELSE [ root_path   |-> obj.root_path,
           files       |-> ScanFiles(obj, Glob(obj, fs)),
           directories |-> ScanDirectories(obj, Glob(obj, fs)) ]

\* FileSystemConnector.extract_metadata
FileSystemExtractMetadata(obj, fs) ==
    IF ~fs.exists THEN [files |-> <<>>, directories |-> <<>>]
    ELSE [ root_path   |-> obj.root_path,
           files       |-> ScanFiles(obj, Glob(obj, fs)),
           directories |-> ScanDirectories(obj, Glob(obj, fs)) ]

\* Faulty variant of FileSystemTransformToAtlas: the file entities are
\* appended before the directory entities.
FileSystemTransformToAtlas_FilesFirst(obj, m) ==
    LET root_path == Get(m, "root_path", <<>>)
        directories == Get(m, "directories", <<>>)
        files == Get(m, "files", <<>>) IN
    NewList
    \o << AtlasEntity("fs_path",
            [ qualifiedName |-> CreateQualifiedName(obj, <<PyStr(root_path)>>),
              name          |-> IF Basename(root_path) # <<>> THEN Basename(root_path)
                                                              ELSE root_path,
              path          |-> root_path,
              description   |-> <<"R","o","o","t"," ","d","i","r","e","c","t","o","r","y">> ]) >>
    \o [i \in 1..Len(files) |->
          AtlasEntity("DataSet",
            [ qualifiedName |-> CreateQualifiedName(obj, <<PyStr(files[i].path)>>),
              name          |-> files[i].name,
              description   |-> <<"F","i","l","e",":"," ">> \o files[i].name,
              fileExtension |-> Get(files[i], "extension", <<>>),
              fileSize      |-> Get(files[i], "size", 0) ])]
    \o [i \in 1..Len(directories) |->
          AtlasEntity("fs_path",
            [ qualifiedName |-> CreateQualifiedName(obj, <<PyStr(directories[i].path)>>),
              name          |-> directories[i].name,
              path          |-> directories[i].path,
              description   |-> <<"D","i","r","e","c","t","o","r","y">> ])]

\* FileSystemConnector.transform_to_atlas
FileSystemTransformToAtlas(obj, m) ==
    LET root_path == Get(m, "root_path", <<>>)
        directories == Get(m, "directories", <<>>)
        files == Get(m, "files", <<>>) IN
    NewList
    \o << AtlasEntity("fs_path",
            [ qualifiedName |-> CreateQualifiedName(obj, <<PyStr(root_path)>>),
              name          |-> IF Basename(root_path) # <<>> THEN Basename(root_path)
                                                              ELSE root_path,
              path          |-> root_path,
              description   |-> <<"R","o","o","t"," ","d","i","r","e","c","t","o","r","y">> ]) >>
    \o [i \in 1..Len(directories) |->
          AtlasEntity("fs_path",
            [ qualifiedName |-> CreateQualifiedName(obj, <<PyStr(directories[i].path)>>),
              name          |-> directories[i].name,
              path          |-> directories[i].path,
              description   |-> <<"D","i","r","e","c","t","o","r","y">> ])]
    \o [i \in 1..Len(files) |->
          AtlasEntity("DataSet",
            [ qualifiedName |-> CreateQualifiedName(obj, <<PyStr(files[i].path)>>),
              name          |-> files[i].name,
              description   |-> <<"F","i","l","e",":"," ">> \o files[i].name,
              fileExtension |-> Get(files[i], "extension", <<>>),
              fileSize      |-> Get(files[i], "size", 0) ])]

----------------------------------------------------------------------------
(* APIConnector (connectors/api.py) *)

\* APIConnector.__init__
APIInit(client, api_endpoint, qualified_name_prefix) ==
    LET base == BaseInit(APIConnector, client, PyNone, qualified_name_prefix) IN
    [ class_name            |-> base.class_name,
      purview_client        |-> base.purview_client,
      collection_name       |-> base.collection_name,
      qualified_name_prefix |-> base.qualified_name_prefix,
      api_endpoint          |-> api_endpoint ]

\* APIConnector.extract_metadata: the placeholder result
APIExtractMetadata(obj) ==
    [ api_name  |-> <<"S","a","m","p","l","e"," ","A","P","I">>,
      endpoints |-> <<
        [path |-> <<"/","u","s","e","r","s">>, method |-> "GET", description |-> <<"G","e","t"," ","a","l","l"," ","u","s","e","r","s">>],
        [path |-> <<"/","u","s","e","r","s","/","{","i","d","}">>, method |-> "GET", description |-> <<"G","e","t"," ","u","s","e","r"," ","b","y"," ","I","D">>] >> ]

\* APIConnector.transform_to_atlas
APITransformToAtlas(obj, m) ==
    LET api_name == Get(m, "api_name", <<"u","n","k","n","o","w","n">>) IN
    NewList
    \o << AtlasEntity("DataSet",
            [ qualifiedName |-> CreateQualifiedName(obj, <<PyStr(api_name)>>),
              name          |-> api_name,
              description   |-> <<"A","P","I",":"," ">> \o api_name ]) >>

----------------------------------------------------------------------------
(* Metadata handed to DatabaseConnector.transform_to_atlas *)

MaxSchemas == 2
MaxTables == 1
MaxColumns == 1
MaxCalls == 2

DigitChars == <<"1", "2", "3", "4", "5", "6", "7", "8", "9">>

\* Metadata of a given shape: shape[i][j] is the number of columns of table
\* j of schema i; schemas are named s1, s2, ..., the tables of each schema
\* t1, t2, ..., the columns of each table c1, c2, ...
ShapeMetadata(shape) ==
    [ database_name |-> <<"d","b">>,
      schemas |-> [i \in 1..Len(shape) |->
        [ name |-> <<"s", DigitChars[i]>>,
          tables |-> [j \in 1..Len(shape[i]) |->
            [ name |-> <<"t", DigitChars[j]>>,
              columns |-> [k \in 1..shape[i][j] |->
                [ name |-> <<"c", DigitChars[k]>>,
                  type |-> IF k % 2 = 1 THEN "int" ELSE "varchar",
                  nullable |-> (k % 2 = 0) ]] ]] ]] ]

SchemaShapes == UNION {[1..n -> 0..MaxColumns] : n \in 0..MaxTables}

\* two schemas of two tables each, beside the bounded shapes
TwoByTwo == { << <<1, 1>>, <<1, 1>> >>, << <<2, 0>>, <<0, 2>> >>, << <<2, 1>>, <<1, 2>> >> }
Shapes == TwoByTwo \cup UNION {[1..n -> SchemaShapes] : n \in 0..MaxSchemas}
ShapeMetadatas == {ShapeMetadata(shape) : shape \in Shapes}

\* names: "", "a", "b", "/a", "a/b"
DbNames == {<<>>, <<"a">>, <<"b">>, <<"/","a">>, <<"a","/","b">>}

\* a column dict, with or without the "nullable" key
Column(name, type, hasNullable, nullable) ==
    IF hasNullable THEN [name |-> name, type |-> type, nullable |-> nullable]
                   ELSE [name |-> name, type |-> type]

\* One schema, one table, one column, every name chosen freely.
NamedMetadatas ==
    { [ database_name |-> d,
        schemas |-> << [ name |-> s,
                         tables |-> << [ name |-> t, columns |-> <<c>> ] >> ] >> ] :
        d \in DbNames, s \in DbNames, t \in DbNames,
        c \in {Column(n, "int", h[1], h[2]) :
                  n \in DbNames, h \in {<<FALSE, FALSE>>, <<TRUE, FALSE>>, <<TRUE, TRUE>>}} }

\* Metadata with optional keys left out.
SparseMetadatas ==
    { EmptyDict,
      [database_name |-> <<"d","b">>],
      [schemas |-> << [name |-> <<"s","1">>] >>],
      [database_name |-> <<"d","b">>,
       schemas |-> << [name |-> <<"s","1">>, tables |-> << [name |-> <<"t","1">>] >>] >>] }

\* Two tables, every schema and table name chosen freely, in two schemas
\* or in one; and one table with two freely named columns.
PairedMetadatas ==
    { [ database_name |-> <<"d","b">>,
        schemas |-> << [ name |-> s1, tables |-> << [ name |-> t1,
                            columns |-> <<[name |-> <<"b">>, type |-> "int"]>> ] >> ],
                       [ name |-> s2, tables |-> << [ name |-> t2,
                            columns |-> <<[name |-> <<"b">>, type |-> "int"]>> ] >> ] >> ] :
        s1 \in DbNames, t1 \in DbNames, s2 \in DbNames, t2 \in DbNames }
    \cup
    { [ database_name |-> <<"d","b">>,
        schemas |-> << [ name |-> <<"s">>, tables |-> <<
            [ name |-> t1, columns |-> <<[name |-> <<"b">>, type |-> "int"]>> ],
            [ name |-> t2, columns |-> <<[name |-> <<"b">>, type |-> "int"]>> ] >> ] >> ] :
        t1 \in DbNames, t2 \in DbNames }
    \cup
    { [ database_name |-> <<"d","b">>,
        schemas |-> << [ name |-> <<"s">>, tables |-> <<
            [ name |-> <<"t">>, columns |-> <<[name |-> c1, type |-> "int"],
                                            [name |-> c2, type |-> "varchar"]>> ] >> ] >> ] :
        c1 \in DbNames, c2 \in DbNames }

DatabaseMetadatas ==
    {DatabaseExtractMetadata(Unset)} \cup ShapeMetadatas \cup NamedMetadatas
        \cup PairedMetadatas \cup SparseMetadatas

----------------------------------------------------------------------------
(* File systems FileSystemConnector.extract_metadata may find, and metadata *)
(* handed to the filesystem and API transforms                             *)

MaxItems == 2

\* what may lie below the root: a.csv, B.CSV, n.txt, R, the directory
\* d.txt and d.txt/c.csv
FsItems ==
    { Item(<<>>, <<"a",".","c","s","v">>, "file", 10, 1),
      Item(<<>>, <<"B",".","C","S","V">>, "file", 20, 2),
      Item(<<>>, <<"n",".","t","x","t">>, "file", 30, 3),
      Item(<<>>, <<"R">>, "file", 0, 4),
      Item(<<>>, <<"d",".","t","x","t">>, "dir", 64, 5),
      Item(<<<<"d",".","t","x","t">>>>, <<"c",".","c","s","v">>, "file", 40, 6) }

\* every directory an item lies in is listed before it
ParentsFirst(l) ==
    \A i \in 1..Len(l) :
        l[i].dirs # <<>> =>
            \E j \in 1..(i - 1) : l[j].kind = "dir" /\ l[j].dirs = <<>> /\ <<l[j].name>> = l[i].dirs

\* the items present, in the order the directory walk meets them
Listings ==
    UNION { {l \in [1..n -> FsItems] :
                /\ \A i, j \in 1..n : i # j => l[i] # l[j]
                /\ ParentsFirst(l)} : n \in 0..MaxItems }

FileSystems ==
    {[exists |-> FALSE, listing |-> <<>>]} \cup {[exists |-> TRUE, listing |-> l] : l \in Listings}

\* file_extensions: None, [], [".csv"], [".CSV"], [".csv", ".txt"]
ExtensionLists ==
    { PyNone, PyList(<<>>), PyList(<<<<".","c","s","v">>>>), PyList(<<<<".","C","S","V">>>>),
      PyList(<<<<".","c","s","v">>, <<".","t","x","t">>>>) }

\* Hand-made filesystem metadata: keys left out, a root ending in a slash,
\* two directories and two files.
SparseFsMetadatas ==
    { EmptyDict,
      [root_path |-> <<"/">>, files |-> <<[name |-> <<"f">>, path |-> <<"/","f">>]>>],
      [root_path |-> <<"/","d","a","t","a","/">>, directories |-> <<[name |-> <<"d">>, path |-> <<"/","d","a","t","a","/","d">>]>>],
      [root_path |-> <<"/","d","a","t","a">>,
       directories |-> <<[name |-> <<"d","2">>, path |-> <<"/","d","a","t","a","/","d","2">>],
                         [name |-> <<"d","1">>, path |-> <<"/","d","a","t","a","/","d","1">>]>>,
       files |-> <<[name |-> <<"f","2",".","c","s","v">>, path |-> <<"/","d","a","t","a","/","f","2",".","c","s","v">>, size |-> 7,
                    extension |-> <<".","c","s","v">>, modified |-> 2],
                   [name |-> <<"f","1">>, path |-> <<"/","d","a","t","a","/","d","1","/","f","1">>, size |-> 0,
                    extension |-> <<>>, modified |-> 1]>>] }

APIMetadatas ==
    { APIExtractMetadata(Unset), EmptyDict, [api_name |-> <<>>], [api_name |-> <<"/","v","1","/">>] }

----------------------------------------------------------------------------
(* The built-in connectors: construction, extract_metadata, transform_to_atlas *)

\* the connectors under study, each with the package's own client
Connectors ==
    {DatabaseInit("PurviewClient", <<"p","o","s","t","g","r","e","s","q","l">>, prefix) :
        prefix \in {PyNone, PyStr(<<"p","r","o","d",":","/","/">>)}}
    \cup {FileSystemInit("PurviewClient", <<"/","d","a","t","a">>, exts, recursive, PyNone) :
            exts \in ExtensionLists, recursive \in BOOLEAN}
    \cup {APIInit("PurviewClient", <<"h","t","t","p","s",":","/","/","a","p","i",".","e","x","a","m","p","l","e">>, PyNone)}

\* self.extract_metadata(), by class: the dict returned, or Raised(kind)
ExtractMetadata(obj, fs) ==
    CASE obj.class_name = DatabaseConnector   -> DatabaseExtractMetadata(obj)
      [] obj.class_name = FileSystemConnector -> FileSystemExtractMetadata(obj, fs)
      [] obj.class_name = APIConnector        -> APIExtractMetadata(obj)

\* self.transform_to_atlas(metadata), by class
TransformToAtlas(obj, m) ==
    CASE obj.class_name = DatabaseConnector   -> DatabaseTransformToAtlas(obj, m)
      [] obj.class_name = FileSystemConnector -> FileSystemTransformToAtlas(obj, m)
      [] obj.class_name = APIConnector        -> APITransformToAtlas(obj, m)

\* the metadata a caller may hand to transform_to_atlas, by class; for the
\* filesystem connector what extract_metadata finds or hand-made metadata
TransformInputs(obj, fs) ==
    CASE obj.class_name = DatabaseConnector   -> DatabaseMetadatas
      [] obj.class_name = FileSystemConnector ->
            {FileSystemExtractMetadata(obj, fs)} \cup SparseFsMetadatas
      [] obj.class_name = APIConnector        -> APIMetadatas

InitConnectors ==
    /\ self \in Connectors
    /\ ctor = [cls |-> self.class_name]
    /\ \E fs \in FileSystems :
         env = IF self.class_name = FileSystemConnector
                 THEN [environ |-> EmptyEnviron, fs |-> fs]
                 ELSE NoEnv
    /\ PipelineIdle
    /\ qnArgs = NoParts
    /\ qn = <<>>
    /\ ent = NoEntity
    /\ atlas = Unset
    /\ back = NoEntity

\* metadata = self.extract_metadata(), of the connector's class
ConnectorExtract ==
    /\ pc = "extract"
    /\ LET outcome == ExtractMetadata(self, env.fs) IN
         IF "raised" \in DOMAIN outcome
            THEN /\ calls' = Append(calls, Invocation("extract_metadata", Unset, Unset))
                 /\ Raise(outcome.raised, "extract_metadata")
                 /\ UNCHANGED metadata
            ELSE /\ metadata' = outcome
                 /\ calls' = Append(calls, Invocation("extract_metadata", Unset, outcome))
                 /\ pc' = "transform"
                 /\ UNCHANGED <<exc, stageExc>>
    /\ UNCHANGED <<self, ctor, env, entry, entities, vi, result, ret, qnVars, entVars>>

\* entities = self.transform_to_atlas(metadata), of the connector's class
ConnectorTransformReturns ==
    /\ pc = "transform"
    /\ LET ents == TransformToAtlas(self, metadata) IN
         /\ entities' = ents
         /\ calls' = Append(calls, Invocation("transform_to_atlas", metadata, [ents |-> ents]))
    /\ pc' = "ingest"
    /\ UNCHANGED <<self, ctor, env, entry, metadata, vi, result, ret, exc, stageExc, qnVars, entVars>>

\* transform_to_atlas(m) called on its own: it builds and returns the list
\* and assigns nothing else
TransformCall(m) ==
    /\ entry' = "transform_to_atlas"
    /\ metadata' = m
    /\ LET ents == TransformToAtlas(self, m) IN
         /\ entities' = ents
         /\ ret' = [ents |-> ents]
         /\ calls' = Append(calls, Invocation("transform_to_atlas", m, [ents |-> ents]))
    /\ pc' = "returned"
    /\ UNCHANGED <<self, ctor, env, vi, result, exc, stageExc, qnVars, entVars>>

CallTransformToAtlas ==
    /\ Idle
    /\ \E m \in TransformInputs(self, env.fs) : TransformCall(m)

\* the caller calls it again with the same metadata object
CallTransformToAtlasAgain ==
    /\ pc = "returned"
    /\ entry = "transform_to_atlas"
    /\ Len(calls) < MaxCalls
    /\ TransformCall(metadata)

NextConnectors ==
    \/ CallScanAndIngest
    \/ ConnectorExtract
    \/ ConnectorTransformReturns
    \/ ValidateBegin
    \/ ValidateNext
    \/ ValidateReturns
    \/ BulkReturns
    \/ Return
    \/ CallTransformToAtlas
    \/ CallTransformToAtlasAgain
    \/ CallerContinues

SpecConnectors == InitConnectors /\ [][NextConnectors]_vars

----------------------------------------------------------------------------
(* Properties of the database transform *)

IsDatabase == self.class_name = DatabaseConnector

\* the transform_to_atlas invocations on record
TransformCalls == {i \in 1..Len(calls) : calls[i].stage = "transform_to_atlas"}

SchemasOf(m) == Get(m, "schemas", <<>>)
TablesOf(m, i) == Get(SchemasOf(m)[i], "tables", <<>>)
ColumnsOf(m, p) == Get(TablesOf(m, p[1])[p[2]], "columns", <<>>)
DbNameOf(m) == Get(m, "database_name", <<"u","n","k","n","o","w","n">>)

\* <<i, j>> for table j of schema i
TableIndex(m) ==
    UNION {{<<i, j>> : j \in 1..Len(TablesOf(m, i))} : i \in 1..Len(SchemasOf(m))}

\* input order: schema by schema, table by table
Earlier(p, q) == p[1] < q[1] \/ (p[1] = q[1] /\ p[2] < q[2])

RECURSIVE TablesAndColumns(_, _)
\* the number of tables in S plus the number of their columns
TablesAndColumns(m, S) ==
    IF S = {} THEN 0
    ELSE LET p == CHOOSE p \in S : TRUE IN
         1 + Len(ColumnsOf(m, p)) + TablesAndColumns(m, S \ {p})

\* where table p's entity belongs: after the database entity and the
\* entities of all earlier tables and their columns
TablePos(m, p) == 2 + TablesAndColumns(m, {q \in TableIndex(m) : Earlier(q, p)})

EntityNames(ents) == [i \in 1..Len(ents) |-> ents[i].attributes.d.name]

\* C14: the database transform emits 1 + tables + columns entities: the
\* database first, then every table in input order, each directly followed
\* by its columns in input order; scan_and_ingest on the database connector
\* extracts the 5 entities db, table, id, name, email.
C14_DatabaseEntityOrder ==
    IsDatabase =>
        /\ \A c \in TransformCalls :
             LET m == calls[c].arg
                 ents == calls[c].out.ents IN
             /\ Len(ents) = 1 + TablesAndColumns(m, TableIndex(m))
             /\ ents[1].typeName = "rdbms_db"
             /\ ents[1].attributes.d.name = DbNameOf(m)
             /\ \A p \in TableIndex(m) :
                  LET pos == TablePos(m, p)
                      cols == ColumnsOf(m, p) IN
                  /\ ents[pos].typeName = "rdbms_table"
                  /\ ents[pos].attributes.d.name = TablesOf(m, p[1])[p[2]].name
                  /\ ents[pos].attributes.d.description =
                        <<"T","a","b","l","e"," ","i","n"," ">> \o SchemasOf(m)[p[1]].name \o <<" ","s","c","h","e","m","a">>
                  /\ \A k \in 1..Len(cols) :
                       /\ ents[pos + k].typeName = "rdbms_column"
                       /\ ents[pos + k].attributes.d.name = cols[k].name
        /\ (entry = "scan_and_ingest" /\ pc = "returned") =>
             /\ ret.entities_extracted = 5
             /\ EntityNames(entities) =
                  <<<<"s","a","m","p","l","e","_","d","a","t","a","b","a","s","e">>, <<"c","u","s","t","o","m","e","r","s">>, <<"i","d">>, <<"n","a","m","e">>, <<"e","m","a","i","l">>>>

\* a transform of two schemas with two tables each, every table with columns
C14_Witness ==
    /\ IsDatabase
    /\ entry = "transform_to_atlas" /\ pc = "returned"
    /\ Len(SchemasOf(metadata)) = 2
    /\ Cardinality(TableIndex(metadata)) = 4
    /\ \A p \in TableIndex(metadata) : Len(ColumnsOf(metadata, p)) >= 1
    /\ Len(entities) = 11

\* prefix + db/schema/table
ExpectedTableName(m, p) ==
    self.qualified_name_prefix \o DbNameOf(m) \o <<"/">> \o SchemasOf(m)[p[1]].name
        \o <<"/">> \o TablesOf(m, p[1])[p[2]].name

\* table p's entity and its k-th column's entity are named as C15 says
NamedAsClaimed(m, ents, p, k) ==
    LET table == ents[TablePos(m, p)].attributes.d
        column == ents[TablePos(m, p) + k].attributes.d
        col == ColumnsOf(m, p)[k] IN
    /\ table.qualifiedName = ExpectedTableName(m, p)
    /\ column.qualifiedName = ExpectedTableName(m, p) \o <<"/">> \o col.name
    /\ column.qualifiedName = table.qualifiedName \o <<"/">> \o col.name
    /\ column.data_type = col.type
    /\ column.isNullable = IF "nullable" \in DOMAIN col THEN col.nullable ELSE TRUE

\* a name create_qualified_name leaves as it is
PlainName(n) == n # <<>> /\ Head(n) # "/" /\ n[Len(n)] # "/"

PlainNames(m, p, k) ==
    /\ PlainName(DbNameOf(m))
    /\ PlainName(SchemasOf(m)[p[1]].name)
    /\ PlainName(TablesOf(m, p[1])[p[2]].name)
    /\ PlainName(ColumnsOf(m, p)[k].name)

\* C15 as stated: every table is named prefix db/schema/table and every
\* column prefix db/schema/table/column, its table's name extended by "/"
\* and the column name, and carries data type and nullability.
C15_ColumnExtendsTable ==
    IsDatabase =>
        \A c \in TransformCalls :
            \A p \in TableIndex(calls[c].arg) :
                \A k \in 1..Len(ColumnsOf(calls[c].arg, p)) :
                    NamedAsClaimed(calls[c].arg, calls[c].out.ents, p, k)

\* C15 amended: the same for the tables and columns whose database,
\* schema, table and column names are non-empty and neither begin nor end
\* with "/".
C15_PlainColumnExtendsTable ==
    IsDatabase =>
        \A c \in TransformCalls :
            \A p \in TableIndex(calls[c].arg) :
                \A k \in 1..Len(ColumnsOf(calls[c].arg, p)) :
                    PlainNames(calls[c].arg, p, k) =>
                        NamedAsClaimed(calls[c].arg, calls[c].out.ents, p, k)

\* plain names, one of them with an interior slash, under a custom prefix
C15_Witness ==
    /\ IsDatabase
    /\ entry = "transform_to_atlas" /\ pc = "returned"
    /\ self.qualified_name_prefix = <<"p","r","o","d",":","/","/">>
    /\ \E p \in TableIndex(metadata) :
         /\ Len(ColumnsOf(metadata, p)) = 1
         /\ PlainNames(metadata, p, 1)
         /\ ColumnsOf(metadata, p)[1].name = <<"a","/","b">>
         /\ "nullable" \notin DOMAIN ColumnsOf(metadata, p)[1]
         /\ entities[3].attributes.d.isNullable = TRUE

----------------------------------------------------------------------------
(* Properties of the filesystem connector *)

IsFileSystem == self.class_name = FileSystemConnector

\* extract_metadata has returned to scan_and_ingest
Extracted == IsFileSystem /\ entry = "scan_and_ingest" /\ pc \notin {"extract", "raised"}

\* the items the scan meets: those directly in the root, and with
\* recursive set those below its directories too
Discovered ==
    {k \in 1..Len(env.fs.listing) : self.recursive \/ env.fs.listing[k].dirs = <<>>}

PathsOf(records) == {records[i].path : i \in 1..Len(records)}

AllowListConfigured == self.file_extensions # PyNone /\ self.file_extensions.l # <<>>

\* ext is in the allow-list when case is ignored
CaseInsensitiveMember(ext) ==
    \E i \in 1..Len(self.file_extensions.l) : Lower(self.file_extensions.l[i]) = Lower(ext)

\* C16: with an allow-list a discovered file is listed exactly when its
\* extension is a case-insensitive member of the list; every discovered
\* directory is listed; without an allow-list every discovered file is
\* listed.
C16_AllowListIgnoresCase ==
    (Extracted /\ env.fs.exists) =>
        \A k \in Discovered :
            LET item == env.fs.listing[k]
                path == Join(<<"/">>, <<self.root_path>> \o item.dirs \o <<item.name>>) IN
            /\ item.kind = "dir" => path \in PathsOf(metadata.directories)
            /\ item.kind = "file" =>
                 (path \in PathsOf(metadata.files)
                    <=> (AllowListConfigured => CaseInsensitiveMember(Suffix(item.name))))

\* C17: on a missing root extract_metadata raises nothing and returns empty
\* files and directories lists, whatever recursive and file_extensions are.
C17_MissingRootIsEmpty ==
    (IsFileSystem /\ entry = "scan_and_ingest" /\ pc # "extract" /\ ~env.fs.exists) =>
        /\ stageExc.stage # "extract_metadata"
        /\ pc # "raised"
        /\ metadata.files = <<>>
        /\ metadata.directories = <<>>

\* a missing root scanned non-recursively with an allow-list
C17_Witness ==
    /\ Extracted /\ ~env.fs.exists
    /\ pc = "transform"
    /\ ~self.recursive /\ AllowListConfigured
    /\ metadata = [files |-> <<>>, directories |-> <<>>]

\* the path with its edge slashes removed, after the prefix
NameFromPath(path) == self.qualified_name_prefix \o Strip(path, "/")

\* C18: the filesystem transform emits 1 + d + f entities: the root, the
\* d directories in input order, the f files in input order; a file
\* entity carries the file's extension and size; every qualified name
\* comes from the item's own path.
C18_FilesystemEntityOrder ==
    IsFileSystem =>
        \A c \in TransformCalls :
            LET m == calls[c].arg
                ents == calls[c].out.ents
                dirs == Get(m, "directories", <<>>)
                files == Get(m, "files", <<>>)
                d == Len(dirs) IN
            /\ Len(ents) = 1 + d + Len(files)
            /\ ents[1].typeName = "fs_path"
            /\ ents[1].attributes.d.path = Get(m, "root_path", <<>>)
            /\ ents[1].attributes.d.qualifiedName = NameFromPath(Get(m, "root_path", <<>>))
            /\ \A i \in 1..d :
                 /\ ents[1 + i].typeName = "fs_path"
                 /\ ents[1 + i].attributes.d.name = dirs[i].name
                 /\ ents[1 + i].attributes.d.path = dirs[i].path
                 /\ ents[1 + i].attributes.d.qualifiedName = NameFromPath(dirs[i].path)
            /\ \A i \in 1..Len(files) :
                 /\ ents[1 + d + i].typeName = "DataSet"
                 /\ ents[1 + d + i].attributes.d.name = files[i].name
                 /\ ents[1 + d + i].attributes.d.qualifiedName = NameFromPath(files[i].path)
                 /\ "extension" \in DOMAIN files[i] =>
                        ents[1 + d + i].attributes.d.fileExtension = files[i].extension
                 /\ "size" \in DOMAIN files[i] =>
                        ents[1 + d + i].attributes.d.fileSize = files[i].size

\* what a scan found, a directory and a file in it, has been transformed
C18_Witness ==
    /\ IsFileSystem
    /\ entry = "transform_to_atlas" /\ pc = "returned"
    /\ DOMAIN metadata = {"root_path", "files", "directories"}
    /\ Len(metadata.directories) = 1 /\ Len(metadata.files) = 1
    /\ metadata.files[1].path = metadata.directories[1].path \o <<"/", "c", ".", "c", "s", "v">>
    /\ Len(entities) = 3
    /\ entities[3].attributes.d.fileSize = 40

----------------------------------------------------------------------------
(* Properties of transform_to_atlas as a function, and of empty segments *)

IsEmptySegment(p) == IsFalsyPart(p) \/ Trimmed(p.s) = <<>>

HasDoubleSlash(s) == \E i \in 1..(Len(s) - 1) : s[i] = "/" /\ s[i + 1] = "/"

\* C20: create_qualified_name skips a part that is empty once stripped,
\* as it skips an empty part, and puts no "//" after the prefix unless a
\* part has one inside.
C20_NoEmptySegment ==
    entry = "create_qualified_name" =>
        /\ qn = CreateQualifiedName(self, SelectSeq(qnArgs, LAMBDA p : ~IsEmptySegment(p)))
        /\ (\A i \in 1..Len(qnArgs) :
                IsEmptySegment(qnArgs[i]) \/ ~HasDoubleSlash(Trimmed(qnArgs[i].s)))
             => ~HasDoubleSlash(SubSeq(qn, Len(self.qualified_name_prefix) + 1, Len(qn)))

----------------------------------------------------------------------------
(* The built-in connectors' transform output under validate_entities *)

\* typeName, attributes and attributes.qualifiedName are all there
CarriesRequiredKeys(e) ==
    /\ "typeName" \in DOMAIN e
    /\ "attributes" \in DOMAIN e
    /\ e.attributes.t = "dict"
    /\ "qualifiedName" \in DOMAIN e.attributes.d

\* C21: every entity a built-in connector's transform_to_atlas emits, for
\* the metadata of a missing filesystem root too, carries typeName,
\* attributes and attributes.qualifiedName; validate_entities rejects none
\* of them, and scan_and_ingest on these connectors raises nothing and
\* reports entities_created equal to entities_extracted.
C21_TransformOutputIsValid ==
    /\ \A c \in TransformCalls :
         \A i \in 1..Len(calls[c].out.ents) :
            /\ CarriesRequiredKeys(calls[c].out.ents[i])
            /\ ValidateEntity(calls[c].out.ents[i]) = "ok"
    /\ (pc = "validate" /\ vi <= Len(entities)) => ValidateEntity(entities[vi]) = "ok"
    /\ entry = "scan_and_ingest" => (pc # "raised" /\ stageExc = NoExc)
    /\ (entry = "scan_and_ingest" /\ pc = "returned") =>
         /\ ret.status = "success"
         /\ ret.entities_extracted = Len(entities)
         /\ ret.entities_created = ret.entities_extracted

\* scan_and_ingest over a missing root has returned: the lone root entity
\* was validated and created
C21_Witness ==
    /\ self.class_name = FileSystemConnector
    /\ ~env.fs.exists
    /\ entry = "scan_and_ingest" /\ pc = "returned"
    /\ Len(entities) = 1
    /\ CarriesRequiredKeys(entities[1])
    /\ vi = 2
    /\ ret.entities_created = 1

----------------------------------------------------------------------------
(* Uniqueness of qualified names in a database batch *)

\* non-empty and without a slash
NoSlash(n) == n # <<>> /\ \A i \in 1..Len(n) : n[i] # "/"

SchemaNameOf(m, p) == SchemasOf(m)[p[1]].name
TableNameOf(m, p) == TablesOf(m, p[1])[p[2]].name

\* the precondition of C22 on the names in metadata m
DistinctlyNamed(m) ==
    /\ NoSlash(DbNameOf(m))
    /\ \A i \in 1..Len(SchemasOf(m)) : NoSlash(SchemasOf(m)[i].name)
    /\ \A p \in TableIndex(m) :
         /\ NoSlash(TableNameOf(m, p))
         /\ \A k \in 1..Len(ColumnsOf(m, p)) : NoSlash(ColumnsOf(m, p)[k].name)
         /\ \A k, l \in 1..Len(ColumnsOf(m, p)) :
              k # l => ColumnsOf(m, p)[k].name # ColumnsOf(m, p)[l].name
    /\ \A p, q \in TableIndex(m) :
         p # q => <<SchemaNameOf(m, p), TableNameOf(m, p)>> # <<SchemaNameOf(m, q), TableNameOf(m, q)>>

QualifiedNames(ents) == [i \in 1..Len(ents) |-> ents[i].attributes.d.qualifiedName]

PairwiseDistinct(s) == \A i, j \in 1..Len(s) : i # j => s[i] # s[j]

\* C22: in a batch of the database transform the qualified names are
\* pairwise distinct whenever the database, schema, table and column names
\* are non-empty and without "/", the (schema, table) pairs are distinct
\* and the column names are distinct within each table.
C22_QualifiedNamesDistinct ==
    IsDatabase =>
        \A c \in TransformCalls :
            DistinctlyNamed(calls[c].arg) =>
                PairwiseDistinct(QualifiedNames(calls[c].out.ents))

\* two schemas hold a table of the same name with a column of the same name
C22_Witness ==
    /\ IsDatabase
    /\ entry = "transform_to_atlas" /\ pc = "returned"
    /\ DistinctlyNamed(metadata)
    /\ \E p, q \in TableIndex(metadata) :
         /\ p[1] # q[1]
         /\ SchemaNameOf(metadata, p) # SchemaNameOf(metadata, q)
         /\ TableNameOf(metadata, p) = TableNameOf(metadata, q)
         /\ Len(ColumnsOf(metadata, p)) = 1 /\ ColumnsOf(metadata, p) = ColumnsOf(metadata, q)
    /\ Len(entities) = 5
    /\ PairwiseDistinct(QualifiedNames(entities))

====
